---- MODULE Spec2Model ----
(***************************************************************************)
(* Model of src/src/ev3.rs: the Driver attribute cache, the Attribute      *)
(* handle over one open file, the Ev3Error conversions and the Device      *)
(* trait's default methods.                                                *)
(*                                                                         *)
(* Text is a sequence of one-character strings, so that parsing and        *)
(* splitting are computed character by character.                          *)
(***************************************************************************)
EXTENDS Integers, Sequences, FiniteSets, TLC

VARIABLES
  attributes,  \* Driver.attributes: attribute name -> the file its Attribute shares
  present,     \* the paths that exist in the file system
  content,     \* the text of each attribute file, as the kernel side reports it
  files,       \* the File objects behind the Attributes: path, descriptor, open
  holders,     \* the Attribute values the caller holds: holder -> file
  last,        \* the last call or environment event, with what it returned
  lastSet      \* the value of the last set::<i32> not yet overwritten, or NoValue

vars == <<attributes, present, content, files, holders, last, lastSet>>

----------------------------------------------------------------------------
(* Bounds of the model *)

\* Caller-held Attribute values (clones) that may be alive at once.
MaxHolders == 3

----------------------------------------------------------------------------
(* Text values *)

TextA == <<"a">>
Text42 == <<"4", "2">>
TextNeg5 == <<"-", "5">>
TextAbc == <<"a", "b", "c">>
TextListSp == <<"r", "u", "n", " ", "p", "o", "s", " ", "s", "t", "o", "p">>
TextListNl == <<"r", "u", "n", "\n", "p", "o", "s", "\n", "s", "t", "o", "p">>
TextRun == <<"r", "u", "n">>
TextStop == <<"s", "t", "o", "p">>

\* Contents the kernel side may put in an attribute file.
Texts == {TextA, Text42, TextNeg5, TextAbc, TextListSp, TextListNl}

\* Commands a caller passes to set_command.
Commands == {TextRun, TextStop}

\* Values a caller passes to set::<i32>.
Values == {42, -5, 0}

\* The attribute names the Device trait uses.
Names == {"address", "command", "commands", "driver_name"}

ClassNames == {"a", "tacho-motor"}
InstanceNames == {"a", "motor0"}

----------------------------------------------------------------------------
(* Results: Ok(v), Err(Ev3Error::InternalError { msg }), or a panic *)

Ok(v) == [tag |-> "Ok", val |-> v]
InternalError(m) == [tag |-> "Err", variant |-> "InternalError", msg |-> m]
Panic(m) == [tag |-> "Panic", msg |-> m]
\* A plain return value (get_attribute returns Attribute, get_raw_fd RawFd).
Ret(v) == [tag |-> "Ret", val |-> v]
Unit == "()"

\* impl From<std::io::Error> for Ev3Error: every I/O error becomes
\* InternalError carrying the error's Display text.
FromIoError(err) == InternalError(err)

\* impl From<std::num::ParseIntError> for Ev3Error.
FromParseIntError(err) == InternalError(err)

\* impl From<std::string::FromUtf8Error> for Ev3Error.
FromUtf8Error(err) == InternalError(err)

----------------------------------------------------------------------------
(* str::parse::<i32> and str::parse::<String>, as get<T> uses them *)

\* i32::MAX and i32::MIN, written so that no intermediate value leaves i32.
I32Max == (2^30 - 1) + 2^30
I32Min == (-I32Max) - 1

DigitVal(c) ==
  CASE c = "0" -> 0 [] c = "1" -> 1 [] c = "2" -> 2 [] c = "3" -> 3
    [] c = "4" -> 4 [] c = "5" -> 5 [] c = "6" -> 6 [] c = "7" -> 7
    [] c = "8" -> 8 [] c = "9" -> 9 [] OTHER -> -1

\* acc * 10 + d (checked_mul, checked_add) would exceed i32::MAX.
PosOverflow(acc, d) == acc > (I32Max - d) \div 10

\* acc * 10 - d (checked_mul, checked_sub) would fall below i32::MIN.
NegOverflow(acc, d) ==
  \/ acc = I32Min
  \/ (-acc) > (I32Max - (IF d = 0 THEN 0 ELSE d - 1)) \div 10

RECURSIVE ParseDigits(_, _, _)
ParseDigits(digits, acc, positive) ==
  IF digits = <<>> THEN [ok |-> TRUE, val |-> acc]
  ELSE LET d == DigitVal(Head(digits))
       IN IF d < 0 THEN [ok |-> FALSE, msg |-> "invalid digit found in string"]
          ELSE IF positive /\ PosOverflow(acc, d)
            THEN [ok |-> FALSE, msg |-> "number too large to fit in target type"]
          ELSE IF ~positive /\ NegOverflow(acc, d)
            THEN [ok |-> FALSE, msg |-> "number too small to fit in target type"]
          ELSE ParseDigits(Tail(digits),
                           IF positive THEN acc * 10 + d ELSE acc * 10 - d,
                           positive)

ParseI32(text) ==
  IF text = <<>>
    THEN [ok |-> FALSE, msg |-> "cannot parse integer from empty string"]
  ELSE IF Len(text) = 1 /\ Head(text) \in {"+", "-"}
    THEN [ok |-> FALSE, msg |-> "invalid digit found in string"]
  ELSE IF Head(text) = "+" THEN ParseDigits(Tail(text), 0, TRUE)
  ELSE IF Head(text) = "-" THEN ParseDigits(Tail(text), 0, FALSE)
  ELSE ParseDigits(text, 0, TRUE)

\* value.parse::<T>() for the two types the callers ask for.
Parse(ty, text) ==
  IF ty = "i32" THEN ParseI32(text) ELSE [ok |-> TRUE, val |-> text]

Types == {"i32", "String"}

----------------------------------------------------------------------------
(* The file system and std::fs::OpenOptions *)

\* Attribute::new opens the literal relative path "a".
PathA == <<"a">>

\* The conventional location of an attribute file:
\* <base>/<class_name>/<instance_name>/<attribute_name>.
ResolvePath(class_name, name, attribute_name) ==
  <<class_name, name, attribute_name>>

\* Paths the environment creates and removes.
FsPaths == {PathA} \cup {ResolvePath("a", "a", n) : n \in Names}

\* OpenOptions::new(): every option false.
OpenOptionsNew == [read |-> FALSE, write |-> FALSE, append |-> FALSE]

\* OpenOptions::open: with no access mode set the call fails with EINVAL
\* (io::ErrorKind::InvalidInput) before the path is looked at; otherwise a
\* missing path is ENOENT.
SysOpen(path) == [call |-> "open", path |-> path]
SysWrite(path, text) == [call |-> "write", path |-> path, text |-> text]
SysClose(fd) == [call |-> "close", fd |-> fd]

FileOpen(opts, path, existing) ==
  IF ~(opts.read \/ opts.write \/ opts.append)
    THEN [ok |-> FALSE, msg |-> "Invalid argument (os error 22)", sys |-> <<>>]
  ELSE IF path \notin existing
    THEN [ok |-> FALSE, msg |-> "No such file or directory (os error 2)",
          sys |-> <<SysOpen(path)>>]
  ELSE [ok |-> TRUE, path |-> path, sys |-> <<SysOpen(path)>>]

----------------------------------------------------------------------------
(* State shared by the operations *)

NoValue == [some |-> FALSE]
Some(v) == [some |-> TRUE, val |-> v]
NoCall == [op |-> "none", target |-> "none", arg |-> "none",
           result |-> [tag |-> "None"], calls |-> <<>>, sys |-> <<>>]

\* A call on `target` with argument `arg`: what it returned, the Attribute
\* calls it made on the way and the system calls it issued.
Call(op, target, arg, result, calls, sys) ==
  [op |-> op, target |-> target, arg |-> arg, result |-> result,
   calls |-> calls, sys |-> sys]

EmptyMap == [n \in {} |-> 0]

\* Rc::strong_count of the Rc<RefCell<File>> behind file r: the cache
\* entries and the caller-held Attributes that share it.
StrongCount(attrs, held, r) ==
  Cardinality({n \in DOMAIN attrs : attrs[n] = r})
    + Cardinality({h \in DOMAIN held : held[h] = r})

FreeHolders == (1 .. MaxHolders) \ DOMAIN holders

OpenFds == {files[r].fd : r \in {x \in DOMAIN files : files[x].open}}

\* The kernel hands out the lowest descriptor not in use (0, 1, 2 are the
\* standard streams).
LowestFreeFd ==
  CHOOSE n \in 0 .. (Cardinality(DOMAIN files) + 3) :
    /\ n \notin ({0, 1, 2} \cup OpenFds)
    /\ \A m \in 0 .. (n - 1) : m \in ({0, 1, 2} \cup OpenFds)

NewFile == Cardinality(DOMAIN files) + 1

LeastFree == CHOOSE h \in FreeHolders : \A k \in FreeHolders : h <= k

----------------------------------------------------------------------------
(* Driver *)

\* Driver::new(): fixed identity, empty attribute map, no I/O.
DriverNew == [class_name |-> "a", name |-> "a", attributes |-> EmptyMap]

\* attributes.get(attribute_name).expect("Internal error in the attribute
\* map").clone(): the cached Attribute, or a panic when the name has no entry.
DriverLookup(attrs, attribute_name) ==
  IF attribute_name \in DOMAIN attrs
    THEN Ret(attrs[attribute_name])
    ELSE Panic("Internal error in the attribute map")

\* A get_attribute that opens and caches the Attribute of a name it has no
\* entry for.
DriverGetAttributeMemoizing(attribute_name) ==
  LET hit == attribute_name \in DOMAIN attributes
      r == IF hit THEN attributes[attribute_name] ELSE NewFile
      path == ResolvePath(DriverNew.class_name, DriverNew.name, attribute_name)
  IN /\ FreeHolders # {}
     /\ attributes' = IF hit THEN attributes
                      ELSE attributes @@ (attribute_name :> r)
     /\ files' = IF hit THEN files
                 ELSE files @@ (r :> [path |-> path, fd |-> LowestFreeFd,
                                       open |-> TRUE])
     /\ holders' = holders @@ (LeastFree :> r)
     /\ last' = Call("get_attribute", "driver", attribute_name, Ret(r), <<>>,
                     IF hit THEN <<>> ELSE <<SysOpen(path)>>)
     /\ UNCHANGED <<present, content, lastSet>>

\* Driver::get_attribute(&self, attribute_name) -> Attribute.  The map is
\* borrowed and read, never written; the clone handed back is a new holder
\* of the same file.
DriverGetAttribute(attribute_name) ==
  LET r == DriverLookup(attributes, attribute_name)
  IN /\ r.tag = "Ret" => FreeHolders # {}
     /\ holders' = IF r.tag = "Ret" THEN holders @@ (LeastFree :> r.val)
                   ELSE holders
     /\ last' = Call("get_attribute", "driver", attribute_name, r, <<>>, <<>>)
     /\ UNCHANGED <<attributes, present, content, files, lastSet>>

----------------------------------------------------------------------------
(* Attribute::new *)

\* Attribute::new(class_name, name, attribute_name): the three arguments are
\* not used; OpenOptions::new().open(&"a")? with the io::Error converted by
\* From<std::io::Error>.
AttributeNew(class_name, name, attribute_name) ==
  LET f == FileOpen(OpenOptionsNew, PathA, present)
      args == <<class_name, name, attribute_name>>
  IN /\ f.ok => FreeHolders # {}
     /\ files' = IF f.ok
                 THEN files @@ (NewFile :> [path |-> f.path,
                                            fd |-> LowestFreeFd, open |-> TRUE])
                 ELSE files
     /\ holders' = IF f.ok THEN holders @@ (LeastFree :> NewFile) ELSE holders
     /\ last' = Call("new", "Attribute", args,
                     IF f.ok THEN Ok(NewFile) ELSE FromIoError(f.msg),
                     <<>>, f.sys)
     /\ UNCHANGED <<attributes, present, content, lastSet>>

----------------------------------------------------------------------------
(* The environment: attribute files appear and disappear with the device *)

FsCreate(p) ==
  /\ p \notin present
  /\ present' = present \cup {p}
  /\ last' = Call("fs_create", "env", p, Ret(Unit), <<>>, <<>>)
  /\ UNCHANGED <<attributes, content, files, holders, lastSet>>

FsRemove(p) ==
  /\ p \in present
  /\ present' = present \ {p}
  /\ last' = Call("fs_remove", "env", p, Ret(Unit), <<>>, <<>>)
  /\ UNCHANGED <<attributes, content, files, holders, lastSet>>

----------------------------------------------------------------------------
(* The program from Driver::new() *)

Init ==
  /\ attributes = DriverNew.attributes
  /\ present \in SUBSET FsPaths
  /\ content = [p \in FsPaths |-> TextA]
  /\ files = EmptyMap
  /\ holders = EmptyMap
  /\ last = NoCall
  /\ lastSet = NoValue

Next ==
  \/ \E n \in Names : DriverGetAttribute(n)
  \/ \E c \in ClassNames, i \in InstanceNames, n \in Names : AttributeNew(c, i, n)
  \/ \E p \in FsPaths : FsCreate(p)
  \/ \E p \in FsPaths : FsRemove(p)

Spec == Init /\ [][Next]_vars

----------------------------------------------------------------------------
(* Attribute methods: what each returns *)

\* fn get_str(&self): the literal "a"; the file is not read.
GetStr == Ok(TextA)

\* fn set_str(&self, value): nothing is written.
SetStr(value) == Ok(Unit)

\* pub fn get<T>(&self): get_str()? parsed as T; a parse failure becomes
\* InternalError carrying the failure's Display text.
Get(ty) ==
  LET value == GetStr
  IN IF value.tag # "Ok" THEN value
     ELSE LET parsed == Parse(ty, value.val)
          IN IF parsed.ok THEN Ok(parsed.val) ELSE InternalError(parsed.msg)

\* pub fn set<T>(&self, value: T): Ok(()) without formatting or writing.
Set(value) == Ok(Unit)

\* pub fn set_str_slice(&self, value: &str): Ok(()) without writing.
SetStrSlice(value) == Ok(Unit)

\* pub fn get_vec(&self): the one-element vector ["a"]; the file is not read.
GetVec == Ok(<<TextA>>)

\* pub fn get_raw_fd(&self): the descriptor of the shared File.
GetRawFd(r) == files[r].fd

----------------------------------------------------------------------------
(* Attribute methods called on a caller-held Attribute h *)

AttributeGet(h, ty) ==
  /\ h \in DOMAIN holders
  /\ last' = Call("get", holders[h], ty, Get(ty), <<>>, <<>>)
  /\ UNCHANGED <<attributes, present, content, files, holders, lastSet>>

AttributeSet(h, value) ==
  /\ h \in DOMAIN holders
  /\ last' = Call("set", holders[h], value, Set(value), <<>>, <<>>)
  /\ lastSet' = Some(value)
  /\ UNCHANGED <<attributes, present, content, files, holders>>

AttributeSetStrSlice(h, value) ==
  /\ h \in DOMAIN holders
  /\ last' = Call("set_str_slice", holders[h], value, SetStrSlice(value),
                  <<>>, <<>>)
  /\ lastSet' = NoValue
  /\ UNCHANGED <<attributes, present, content, files, holders>>

AttributeGetVec(h) ==
  /\ h \in DOMAIN holders
  /\ last' = Call("get_vec", holders[h], Unit, GetVec, <<>>, <<>>)
  /\ UNCHANGED <<attributes, present, content, files, holders, lastSet>>

AttributeGetRawFd(h) ==
  /\ h \in DOMAIN holders
  /\ last' = Call("get_raw_fd", holders[h], Unit, Ret(GetRawFd(holders[h])),
                  <<>>, <<>>)
  /\ UNCHANGED <<attributes, present, content, files, holders, lastSet>>

\* A clone that duplicates the File instead of sharing it.
AttributeCloneReopening(h) ==
  /\ h \in DOMAIN holders
  /\ FreeHolders # {}
  /\ files' = files @@ (NewFile :> [path |-> files[holders[h]].path,
                                     fd |-> LowestFreeFd, open |-> TRUE])
  /\ holders' = holders @@ (LeastFree :> NewFile)
  /\ last' = Call("clone", holders[h], Unit, Ret(NewFile), <<>>, <<>>)
  /\ UNCHANGED <<attributes, present, content, lastSet>>

\* #[derive(Clone)] on Attribute { file: Rc<RefCell<File>> }: Rc::clone, a
\* new holder of the same File.
AttributeClone(h) ==
  /\ h \in DOMAIN holders
  /\ FreeHolders # {}
  /\ holders' = holders @@ (LeastFree :> holders[h])
  /\ last' = Call("clone", holders[h], Unit, Ret(holders[h]), <<>>, <<>>)
  /\ UNCHANGED <<attributes, present, content, files, lastSet>>

\* Dropping an Attribute drops its Rc; the File is closed when the strong
\* count reaches zero.
AttributeDrop(h) ==
  /\ h \in DOMAIN holders
  /\ LET r == holders[h]
         isLast == StrongCount(attributes, holders, r) = 1
     IN /\ holders' = [k \in DOMAIN holders \ {h} |-> holders[k]]
        /\ files' = IF isLast THEN [files EXCEPT ![r].open = FALSE] ELSE files
        /\ last' = Call("drop", r, Unit, Ret(Unit), <<>>,
                        IF isLast THEN <<SysClose(files[r].fd)>> ELSE <<>>)
  /\ UNCHANGED <<attributes, present, content, lastSet>>

\* The kernel side changes what an attribute file reports.
ExternalWrite(p, text) ==
  /\ p \in present
  /\ content[p] # text
  /\ content' = [content EXCEPT ![p] = text]
  /\ lastSet' = NoValue
  /\ last' = Call("external_write", "env", <<p, text>>, Ret(Unit), <<>>, <<>>)
  /\ UNCHANGED <<attributes, present, files, holders>>

----------------------------------------------------------------------------
(* One Attribute value over an open attribute file, held by the caller or  *)
(* by a Driver's cache, and the operations on it and on its clones.        *)

InitAttr ==
  \E n \in Names, cached \in BOOLEAN, text \in Texts :
    LET path == ResolvePath(DriverNew.class_name, DriverNew.name, n)
    IN /\ attributes = IF cached THEN (n :> 1) ELSE EmptyMap
       /\ holders = IF cached THEN EmptyMap ELSE (1 :> 1)
       /\ files = (1 :> [path |-> path, fd |-> 3, open |-> TRUE])
       /\ present = {path}
       /\ content = [p \in FsPaths |-> IF p = path THEN text ELSE TextA]
       /\ last = NoCall
       /\ lastSet = NoValue

NextAttr ==
  \/ \E h \in 1 .. MaxHolders, ty \in Types : AttributeGet(h, ty)
  \/ \E h \in 1 .. MaxHolders, v \in Values : AttributeSet(h, v)
  \/ \E h \in 1 .. MaxHolders, c \in Commands : AttributeSetStrSlice(h, c)
  \/ \E h \in 1 .. MaxHolders : AttributeGetVec(h)
  \/ \E h \in 1 .. MaxHolders : AttributeGetRawFd(h)
  \/ \E h \in 1 .. MaxHolders : AttributeClone(h)
  \/ \E h \in 1 .. MaxHolders : AttributeDrop(h)
  \/ \E n \in Names : DriverGetAttribute(n)
  \/ \E p \in FsPaths, text \in Texts : ExternalWrite(p, text)

SpecAttr == InitAttr /\ [][NextAttr]_vars

----------------------------------------------------------------------------
(* Device: the trait's default methods over a device that owns a Driver *)

NameList == <<"address", "command", "commands", "driver_name">>

\* fn get_attribute(&self, name: &str) -> Attribute, the trait's required
\* method, as a device that owns a Driver supplies it: the Driver's lookup.
DeviceGetAttribute(attrs, name) == DriverLookup(attrs, name)

AttributeMethod(method, arg) ==
  CASE method = "get" -> Get(arg)
    [] method = "set_str_slice" -> SetStrSlice(arg)
    [] method = "get_vec" -> GetVec

\* self.get_attribute(name).method(arg): the calls made and the result.  The
\* Attribute returned is a temporary, dropped at the end of the statement
\* while the cache entry it was cloned from still holds the File.
Delegate(attrs, name, method, arg) ==
  LET a == DeviceGetAttribute(attrs, name)
      asked == [fn |-> "get_attribute", name |-> name]
  IN IF a.tag = "Panic" THEN [calls |-> <<asked>>, result |-> a]
     ELSE [calls |-> <<asked, [fn |-> method, on |-> a.val]>>,
           result |-> AttributeMethod(method, arg)]

\* fn get_address(&self) -> Ev3Result<String>
GetAddress(attrs) == Delegate(attrs, "address", "get", "String")

\* fn set_command(&self, command: &str) -> Ev3Result<()>
SetCommand(attrs, command) == Delegate(attrs, "command", "set_str_slice", command)

\* A get_commands that asks for the attribute "command".
GetCommandsOfCommand(attrs) == Delegate(attrs, "command", "get_vec", Unit)

\* fn get_commands(&self) -> Ev3Result<Vec<String>>
GetCommands(attrs) == Delegate(attrs, "commands", "get_vec", Unit)

\* fn get_driver_name(&self) -> Ev3Result<String>
GetDriverName(attrs) == Delegate(attrs, "driver_name", "get", "String")

DeviceCall(op, arg, d) ==
  /\ last' = Call(op, "device", arg, d.result, d.calls, <<>>)
  /\ UNCHANGED <<attributes, present, content, files, holders>>

DeviceGetAddress ==
  /\ DeviceCall("get_address", Unit, GetAddress(attributes))
  /\ UNCHANGED lastSet

DeviceSetCommand(command) ==
  /\ DeviceCall("set_command", command, SetCommand(attributes, command))
  /\ lastSet' = NoValue

DeviceGetCommands ==
  /\ DeviceCall("get_commands", Unit, GetCommands(attributes))
  /\ UNCHANGED lastSet

DeviceGetDriverName ==
  /\ DeviceCall("get_driver_name", Unit, GetDriverName(attributes))
  /\ UNCHANGED lastSet

----------------------------------------------------------------------------
(* A device whose Driver caches the Attributes of some of its names *)

Rank(n, D) ==
  Cardinality({m \in D : \E i, j \in 1 .. Len(NameList) :
                  NameList[i] = m /\ NameList[j] = n /\ i <= j})

InitDevice ==
  \E D \in SUBSET Names :
    /\ attributes = [n \in D |-> Rank(n, D)]
    /\ files = [r \in 1 .. Cardinality(D) |->
                  LET n == CHOOSE m \in D : Rank(m, D) = r
                  IN [path |-> ResolvePath(DriverNew.class_name, DriverNew.name, n),
                      fd |-> 2 + r, open |-> TRUE]]
    /\ present = {ResolvePath(DriverNew.class_name, DriverNew.name, n) : n \in D}
    /\ content = [p \in FsPaths |-> TextA]
    /\ holders = EmptyMap
    /\ last = NoCall
    /\ lastSet = NoValue

NextDevice ==
  \/ DeviceGetAddress
  \/ \E c \in Commands : DeviceSetCommand(c)
  \/ DeviceGetCommands
  \/ DeviceGetDriverName
  \/ \E p \in FsPaths, text \in Texts : ExternalWrite(p, text)

SpecDevice == InitDevice /\ [][NextDevice]_vars

----------------------------------------------------------------------------
(* What the claims compare the code with *)

Whitespace == {" ", "\n", "\t", "\r"}

\* The tokens of a text, in order: maximal runs of non-whitespace characters.
RECURSIVE SplitFrom(_, _, _)
SplitFrom(text, cur, acc) ==
  IF text = <<>> THEN (IF cur = <<>> THEN acc ELSE Append(acc, cur))
  ELSE IF Head(text) \in Whitespace
    THEN SplitFrom(Tail(text), <<>>, IF cur = <<>> THEN acc ELSE Append(acc, cur))
  ELSE SplitFrom(Tail(text), Append(cur, Head(text)), acc)

SplitWhitespace(text) == SplitFrom(text, <<>>, <<>>)

Opens(sys) == Len(SelectSeq(sys, LAMBDA c : c.call = "open"))

DriverPath(n) == ResolvePath(DriverNew.class_name, DriverNew.name, n)

\* The text the file behind file object r reports.
Raw(r) == content[files[r].path]

----------------------------------------------------------------------------
(* Claims *)

\* C1: a get_attribute for a name with no cache entry performs exactly one
\* open, inserts the new Attribute into the cache and returns it; a call for a
\* name already cached performs no open and returns the cached Attribute.
C1_GetAttributeOpensOnceAndCaches ==
  [][\A n \in Names :
       (last'.op = "get_attribute" /\ last'.arg = n) =>
         IF n \notin DOMAIN attributes
         THEN /\ Opens(last'.sys) = 1
              /\ n \in DOMAIN attributes'
              /\ last'.result = Ret(attributes'[n])
         ELSE /\ Opens(last'.sys) = 0
              /\ attributes' = attributes
              /\ last'.result = Ret(attributes[n])]_vars

\* C2: get_attribute does not panic when the name is not cached and its
\* attribute file is missing: the caller gets an error result.
C2_MissingFileIsAnErrorResult ==
  \A n \in Names :
    (/\ last.op = "get_attribute"
     /\ last.arg = n
     /\ n \notin DOMAIN attributes
     /\ DriverPath(n) \notin present)
    => last.result.tag = "Err"

\* C3: get::<i32>() after set(v), with no external change to the file since,
\* returns Ok(v).
C3_SetThenGetRoundTrips ==
  (last.op = "get" /\ last.arg = "i32" /\ lastSet.some)
    => last.result = Ok(lastSet.val)

\* C4: get::<T>() returns the file's current text parsed as T, and fails with
\* a ParseError carrying the parse failure's message when the text is no T.
C4_GetParsesRawContent ==
  last.op = "get" =>
    LET expected == Parse(last.arg, Raw(last.target))
    IN IF expected.ok
       THEN last.result = Ok(expected.val)
       ELSE /\ last.result.tag = "Err"
            /\ last.result.variant = "ParseError"
            /\ last.result.msg = expected.msg

\* C5: get_vec() returns the tokens of the file's current text, split on
\* whitespace, in order.
C5_GetVecSplitsRawContent ==
  last.op = "get_vec" => last.result = Ok(SplitWhitespace(Raw(last.target)))

\* C6: set_command(c) issues exactly one write, to the file of the attribute
\* "command", of exactly the text c, which replaces the file's content.
C6_SetCommandWritesCommandOnce ==
  (last.op = "set_command" /\ "command" \in DOMAIN attributes) =>
    LET path == files[attributes["command"]].path
    IN /\ last.sys = <<SysWrite(path, last.arg)>>
       /\ content[path] = last.arg

\* C7: Attribute::new(class_name, name, attribute_name) opens the path the
\* three names resolve to: Ok with a File open on that path when it exists,
\* an error result (no panic) when it does not.
C7_NewOpensResolvedPath ==
  last.op = "new" =>
    LET path == ResolvePath(last.arg[1], last.arg[2], last.arg[3])
    IN IF path \in present
       THEN /\ last.result.tag = "Ok"
            /\ files[last.result.val].path = path
            /\ files[last.result.val].open
       ELSE last.result.tag = "Err"

\* C8: one File backs an Attribute and all its clones: it is open, with the
\* same descriptor for every holder, exactly while some holder (cache entry or
\* caller-held clone) is alive; it is closed when the last holder is dropped
\* and never opened again.
C8_OneFilePerAttribute ==
  /\ [](/\ DOMAIN files = {1}
        /\ files[1].open <=> StrongCount(attributes, holders, 1) > 0
        /\ \A h \in DOMAIN holders :
             holders[h] = 1 /\ GetRawFd(holders[h]) = files[1].fd
        /\ last.op = "get_raw_fd" => last.result = Ret(files[1].fd))
  /\ [][\A r \in DOMAIN files :
          /\ r \in DOMAIN files'
          /\ files'[r].fd = files[r].fd
          /\ files'[r].open => files[r].open
          /\ (files[r].open /\ ~files'[r].open) =>
               (last'.op = "drop" /\ last'.sys = <<SysClose(files[r].fd)>>)]_vars

\* C8 witness: the last caller-held clone has been dropped and closed the File.
C8_Witness ==
  /\ last.op = "drop"
  /\ last.sys # <<>>
  /\ ~files[1].open
  /\ DOMAIN holders = {}

\* C9: each Device method asks its own get_attribute for one fixed name and
\* calls exactly one Attribute method on what it returns (get on "address",
\* set_str_slice on "command", get_vec on "commands", get on "driver_name");
\* when get_attribute panics nothing else is called.  The methods change no
\* state of the device.
C9_DeviceDelegates ==
  /\ [](\A i \in 1 .. Len(NameList) :
          LET op == <<"get_address", "set_command", "get_commands",
                      "get_driver_name">>[i]
              method == <<"get", "set_str_slice", "get_vec", "get">>[i]
              name == NameList[i]
              asked == [fn |-> "get_attribute", name |-> name]
          IN last.op = op =>
               IF name \in DOMAIN attributes
               THEN last.calls = <<asked, [fn |-> method, on |-> attributes[name]]>>
               ELSE last.calls = <<asked>> /\ last.result.tag = "Panic")
  /\ [][last'.target = "device" =>
          UNCHANGED <<attributes, files, holders, present, content>>]_vars

\* C9 witness: get_commands has run get_vec on the cached "commands" Attribute.
C9_Witness ==
  /\ last.op = "get_commands"
  /\ "commands" \in DOMAIN attributes
  /\ Len(last.calls) = 2
  /\ last.calls[2].fn = "get_vec"
  /\ last.result.tag = "Ok"

\* C10: get_attribute never adds, removes or replaces a cache entry, so the
\* map of a Driver built by Driver::new stays empty.
C10_GetAttributeLeavesMapUnchanged ==
  /\ [](attributes = DriverNew.attributes)
  /\ [][last'.op = "get_attribute" => attributes' = attributes]_vars

\* C10 witness: get_attribute has been called on the Driver.
C10_Witness ==
  /\ last.op = "get_attribute"
  /\ last.target = "driver"
  /\ attributes = EmptyMap

====
